---- MODULE Spec2Model ----
(***************************************************************************)
(* Model of the temporal feature-engineering and chronological-split       *)
(* pipeline: TimeSeriesSplit (src/src/train_test_split.py),                *)
(* FeatureEngineering / DataPrep (src/src/feature_engineering.py),         *)
(* load_data (src/src/data_loader.py) and the trainers (src/src/models).   *)
(***************************************************************************)
EXTENDS Integers, Sequences, FiniteSets, TLC

(***************************************************************************)
(* Bounds of the model.                                                    *)
(***************************************************************************)
\* Tables with arbitrary (unsorted, duplicated) dates have at most this many rows.
SmallRows == 2
\* Tables with consecutive ascending dates have at most this many rows.
MaxRows == 5
\* Dates of the arbitrary tables are drawn from 1..MaxDate.
MaxDate == 3
\* test_size ranges over the decimal fractions p/TSDen, 0 < p < TSDen.
TSDen == 10
\* Price frames have at most this many rows.
FERows == 4
\* The long price frames, which the default windows leave rows of, have
\* PrepRows - 1 or PrepRows rows.
PrepRows == 22
\* The windows of a FeatureEngineering instance are drawn from 1..MaxWindow.
MaxWindow == 3
\* engineer is called with lags in 0..MaxLags.
MaxLags == 1
\* add_targets is called with shift in 1..MaxShift.
MaxShift == 2
\* training sets a trainer is fitted on
MaxSets == 2
\* rows of a test set handed to evaluate
MaxTest == 2
\* calls made on one trainer
MaxCalls == 2

(***************************************************************************)
(* Natural numbers of any size.  TLC's integers are 32 bits wide, a       *)
(* double's significand is 53 and the exact product or quotient of two     *)
(* doubles needs more, so a natural is a little-endian sequence of limbs   *)
(* in base 2^15 without leading zero limbs (<<>> is 0).                    *)
(***************************************************************************)
LimbBits == 15
Base == 2 ^ LimbBits

RECURSIVE Trim(_)
\* Drop the leading (most significant) zero limbs.
Trim(l) ==
    IF l = <<>> THEN <<>>
    ELSE IF l[Len(l)] = 0 THEN Trim(SubSeq(l, 1, Len(l) - 1)) ELSE l

\* The natural of a TLC integer 0 <= v < 2^30
NatOf(v) == Trim(<<v % Base, v \div Base>>)

RECURSIVE NatToInt(_)
NatToInt(l) == IF l = <<>> THEN 0 ELSE Head(l) + Base * NatToInt(Tail(l))

RECURSIVE NatMulSmall(_, _, _)
\* The low limb of v, then the rest of l times n with the high limb as carry
MulLimb(rest, n, v) == <<v % Base>> \o NatMulSmall(rest, n, v \div Base)

\* l * n + carry for 0 <= n, carry < Base
NatMulSmall(l, n, carry) ==
    IF l = <<>> THEN (IF carry = 0 THEN <<>> ELSE <<carry>>)
    ELSE MulLimb(Tail(l), n, Head(l) * n + carry)

RECURSIVE NatAdd(_, _, _)
\* The low limb of v, then a + b with the high limb as carry
AddLimb(a, b, v) == <<v % Base>> \o NatAdd(a, b, v \div Base)

\* a + b + carry
NatAdd(a, b, carry) ==
    IF a = <<>> THEN (IF carry = 0 THEN b
                     ELSE IF b = <<>> THEN <<carry>>
                     ELSE AddLimb(<<>>, Tail(b), Head(b) + carry))
    ELSE IF b = <<>> THEN (IF carry = 0 THEN a ELSE AddLimb(Tail(a), <<>>, Head(a) + carry))
    ELSE AddLimb(Tail(a), Tail(b), Head(a) + Head(b) + carry)

RECURSIVE NatSub(_, _, _)
\* The low limb of v, then a - b with a borrow when v < 0
SubLimb(a, b, v) ==
    <<(v + Base) % Base>> \o NatSub(a, b, IF v < 0 THEN 1 ELSE 0)

\* a - b - borrow for a >= b + borrow, limb by limb (not trimmed)
NatSub(a, b, borrow) ==
    IF a = <<>> THEN <<>>
    ELSE IF b = <<>> THEN (IF borrow = 0 THEN a ELSE SubLimb(Tail(a), <<>>, Head(a) - borrow))
    ELSE SubLimb(Tail(a), Tail(b), Head(a) - Head(b) - borrow)

RECURSIVE NatMul(_, _)
NatMul(a, b) ==
    IF a = <<>> \/ b = <<>> THEN <<>>
    ELSE NatAdd(NatMulSmall(a, Head(b), 0),
                IF Tail(b) = <<>> THEN <<>> ELSE <<0>> \o NatMul(a, Tail(b)), 0)

\* -1, 0, 1 as a < b, a = b, a > b
NatCmp(a, b) ==
    IF Len(a) # Len(b) THEN (IF Len(a) < Len(b) THEN -1 ELSE 1)
    ELSE LET D == {i \in 1..Len(a) : a[i] # b[i]}
         IN  IF D = {} THEN 0
             ELSE LET i == CHOOSE j \in D : \A k \in D : k <= j
                  IN  IF a[i] < b[i] THEN -1 ELSE 1

RECURSIVE NatDivRem(_, _)
\* Quotient (not trimmed) and remainder of l by 0 < p < Base
NatDivRem(l, p) ==
    IF l = <<>> THEN [q |-> <<>>, r |-> 0]
    ELSE LET hi  == NatDivRem(Tail(l), p)
             cur == hi.r * Base + Head(l)
         IN  [q |-> <<cur \div p>> \o hi.q, r |-> cur % p]

\* Number of bits of a limb
LimbLen(v) == CHOOSE k \in 0..LimbBits : v < 2 ^ k /\ (k = 0 \/ 2 ^ (k - 1) <= v)

NatBitLen(l) == IF l = <<>> THEN 0 ELSE LimbBits * (Len(l) - 1) + LimbLen(l[Len(l)])

\* Bit i (from 0) of l
NatBit(l, i) ==
    IF i \div LimbBits + 1 > Len(l) THEN 0
    ELSE (l[i \div LimbBits + 1] \div (2 ^ (i % LimbBits))) % 2

\* floor(l / 2^k)
NatShr(l, k) ==
    LET s    == k \div LimbBits
        r    == k % LimbBits
        rest == SubSeq(l, s + 1, Len(l))
    IN  Trim([i \in 1..Len(rest) |->
                (rest[i] \div (2 ^ r))
                + ((IF i < Len(rest) THEN rest[i + 1] ELSE 0) % (2 ^ r))
                  * (2 ^ (LimbBits - r))])

\* l * 2^k
NatShl(l, k) ==
    IF l = <<>> THEN <<>>
    ELSE [i \in 1..(k \div LimbBits) |-> 0]
         \o (IF k % LimbBits = 0 THEN l ELSE NatMulSmall(l, 2 ^ (k % LimbBits), 0))

\* The number of trailing zero bits of a limb v > 0
LimbTz(v) == CHOOSE k \in 0..(LimbBits - 1) : v % (2 ^ k) = 0 /\ v % (2 ^ (k + 1)) # 0

\* The number of trailing zero bits of l, not zero
NatTrailingZeros(l) ==
    LET i == CHOOSE j \in 1..Len(l) : l[j] # 0 /\ \A k \in 1..(j - 1) : l[k] = 0
    IN  LimbBits * (i - 1) + LimbTz(l[i])

\* A quotient digit from above: floor of the two top limbs of cur by the top
\* limb of d, at most two more than the digit when that limb is >= Base / 2
DigitEstimate(cur, d) ==
    LET top == (IF Len(cur) > Len(d) THEN cur[Len(d) + 1] ELSE 0) * Base
               + (IF Len(cur) >= Len(d) THEN cur[Len(d)] ELSE 0)
    IN  IF top \div d[Len(d)] > Base - 1 THEN Base - 1 ELSE top \div d[Len(d)]

RECURSIVE DigitFrom(_, _, _)
\* The largest digit p <= q with d * p <= cur
DigitFrom(cur, d, q) ==
    IF NatCmp(Trim(NatMulSmall(d, q, 0)), cur) <= 0 THEN q
    ELSE DigitFrom(cur, d, q - 1)

RECURSIVE DivLoop(_, _, _, _, _)
\* The digit of limb i is found: the remainder gives up d * digit
DivDigit(n, i, d, q, cur, digit) ==
    IF digit = 0 THEN DivLoop(n, i - 1, d, <<0>> \o q, cur)
    ELSE DivLoop(n, i - 1, d, <<digit>> \o q,
                 Trim(NatSub(cur, Trim(NatMulSmall(d, digit, 0)), 0)))

\* Limb i of n has come down to the remainder, which is cur now
DivLimb(n, i, d, q, cur) == DivDigit(n, i, d, q, cur, DigitFrom(cur, d, DigitEstimate(cur, d)))

\* Long division from limb i of n down, q and r being the quotient (not
\* trimmed) and the remainder of the limbs above it
DivLoop(n, i, d, q, r) ==
    IF i = 0 THEN [q |-> q, r |-> r] ELSE DivLimb(n, i, d, q, Trim(<<n[i]>> \o r))

\* Quotient (not trimmed) and remainder of n by d, whose top limb is at
\* least Base / 2
NatLongDiv(n, d) == DivLoop(n, Len(n), d, <<>>, <<>>)

(***************************************************************************)
(* Double-precision arithmetic of `int(n * (1 - self.test_size))`.         *)
(* A double is [m, e]: the value m * 2^(-e), m a natural of at most        *)
(* Mant + 1 bits.                                                          *)
(***************************************************************************)
\* Significand width of a Python float (IEEE-754 binary64).
Mant == 53

\* Round l * 2^(-e) to Mant significant bits, ties to even.
RoundDouble(l, e) ==
    LET L == NatBitLen(l)
    IN  IF L <= Mant THEN [m |-> l, e |-> e]
        ELSE LET k      == L - Mant
                 kept   == NatShr(l, k)
                 guard  == NatBit(l, k - 1)
                 sticky == \E i \in 0..(k - 2) : NatBit(l, i) = 1
                 up     == guard = 1 /\ (sticky \/ NatBit(kept, 0) = 1)
             IN  [m |-> IF up THEN NatMulSmall(kept, 1, 1) ELSE kept,
                  e |-> e - k]

RECURSIVE LongDiv(_, _, _)
\* The first k limbs of the base-2^15 expansion of r/q (0 <= r < q < Base),
\* least significant first.
LongDiv(r, q, k) ==
    IF k = 0 THEN <<>>
    ELSE LongDiv((r * Base) % q, q, k - 1) \o <<(r * Base) \div q>>

RECURSIVE LongRem(_, _, _)
\* What is left of r/q after those k limbs.
LongRem(r, q, k) == IF k = 0 THEN r ELSE LongRem((r * Base) % q, q, k - 1)

\* Limbs of the expansion of a literal: Mant bits and more than a limb beyond.
FracLimbs == Mant \div LimbBits + 3

\* The double nearest to the literal p/q, 0 < p < q: the expansion is cut
\* after FracLimbs limbs and a non-zero remainder kept as one more low bit.
DoubleOfRatio(p, q) ==
    LET l == Trim(LongDiv(p, q, FracLimbs))
    IN  IF LongRem(p, q, FracLimbs) = 0
        THEN RoundDouble(l, FracLimbs * LimbBits)
        ELSE RoundDouble(NatMulSmall(l, 2, 1), FracLimbs * LimbBits + 1)

\* 1 - x for a double 0 < x < 1
OneMinus(x) ==
    LET one == [i \in 1..(x.e \div LimbBits + 1) |->
                   IF i = x.e \div LimbBits + 1 THEN 2 ^ (x.e % LimbBits) ELSE 0]
    IN  RoundDouble(Trim(NatSub(one, x.m, 0)), x.e)

\* n * y for a natural n < Base and a double y
MulInt(n, y) == RoundDouble(Trim(NatMulSmall(y.m, n, 0)), y.e)

\* int(y) for a double y >= 0
Trunc(y) == NatToInt(NatShr(y.m, y.e))

(***************************************************************************)
(* Column values.  A pandas float column holds IEEE-754 doubles, and every *)
(* operation on it rounds its exact result to the nearest double, ties to  *)
(* even.  A value is [k, s, m, e] with k in {"num", "nan", "inf"}, s the   *)
(* sign bit as 1 or -1 (a zero has one too: 0.0 and -0.0), and for a       *)
(* number the magnitude m * 2^(-e): m is an odd natural of at most Mant    *)
(* bits, or <<>> with e = 0 for a zero.  The exponents of the values met   *)
(* here are far from the ends of the doubles' range: nothing overflows or  *)
(* is subnormal.                                                           *)
(***************************************************************************)
NaN == [k |-> "nan", s |-> 1, m |-> <<>>, e |-> 0]

Inf(s) == [k |-> "inf", s |-> s, m |-> <<>>, e |-> 0]

\* 0.0 and -0.0
SignedZero(s) == [k |-> "num", s |-> s, m |-> <<>>, e |-> 0]

Zero == SignedZero(1)

\* The double s * r.m * 2^(-r.e), tz being the trailing zero bits of r.m
CanonShift(s, r, tz) == [k |-> "num", s |-> s, m |-> NatShr(r.m, tz), e |-> r.e - tz]

\* The double s * r.m * 2^(-r.e) for r.m of at most Mant bits
Canon(s, r) ==
    IF r.m = <<>> THEN SignedZero(s) ELSE CanonShift(s, r, NatTrailingZeros(r.m))

\* The double nearest to s * l * 2^(-e)
Round(s, l, e) == Canon(s, RoundDouble(l, e))

\* float(i) for an integer |i| < 2^30
NumOf(i) == Round(IF i < 0 THEN -1 ELSE 1, NatOf(IF i < 0 THEN -i ELSE i), 0)

One == NumOf(1)

Hundred == NumOf(100)

IsNaN(a) == a.k = "nan"

IsZero(a) == a.k = "num" /\ a.m = <<>>

\* -a: the sign bit flips, that of a zero too
Neg(a) == IF a.k = "nan" THEN NaN ELSE [a EXCEPT !.s = -a.s]

\* sa * A + sb * B over 2^e rounded, c being NatCmp(A, B); an exact zero
\* sum of two non-zero terms is 0.0
AddAligned(sa, A, sb, B, e, c) ==
    IF sa = sb THEN Round(sa, NatAdd(A, B, 0), e)
    ELSE IF c = 0 THEN Zero
    ELSE IF c > 0 THEN Round(sa, Trim(NatSub(A, B, 0)), e)
    ELSE Round(sb, Trim(NatSub(B, A, 0)), e)

AddShifted(sa, A, sb, B, e) == AddAligned(sa, A, sb, B, e, NatCmp(A, B))

\* a + b for finite non-zero a and b, e the larger of their exponents
AddFin(a, b, e) ==
    AddShifted(a.s, NatShl(a.m, e - a.e), b.s, NatShl(b.m, e - b.e), e)

\* a + b: NaN is absorbing, inf - inf is NaN, -0.0 + -0.0 is -0.0 and any
\* other sum of zeros 0.0
Add(a, b) ==
    IF a.k = "nan" \/ b.k = "nan" THEN NaN
    ELSE IF a.k = "inf" THEN (IF b.k = "inf" /\ b.s # a.s THEN NaN ELSE a)
    ELSE IF b.k = "inf" THEN b
    ELSE IF a.m = <<>> THEN (IF b.m # <<>> THEN b ELSE IF a.s = b.s THEN a ELSE Zero)
    ELSE IF b.m = <<>> THEN a
    ELSE AddFin(a, b, IF a.e > b.e THEN a.e ELSE b.e)

Sub(a, b) == Add(a, Neg(b))

\* a * b: inf * 0 is NaN, the sign is the product of the signs
Mul(a, b) ==
    IF a.k = "nan" \/ b.k = "nan" THEN NaN
    ELSE IF a.k = "inf" \/ b.k = "inf"
    THEN (IF IsZero(a) \/ IsZero(b) THEN NaN ELSE Inf(a.s * b.s))
    ELSE IF a.m = <<>> \/ b.m = <<>> THEN SignedZero(a.s * b.s)
    ELSE Round(a.s * b.s, NatMul(a.m, b.m), a.e + b.e)

\* The double nearest to s * (q + a fraction) * 2^(-e), the fraction being 0
\* when the division was exact: a remainder that is left is kept as one
\* more low bit, below the bits that decide
DivRounded(s, q, exact, e) ==
    IF exact THEN Round(s, Trim(q), e) ELSE Round(s, NatMulSmall(Trim(q), 2, 1), e + 1)

\* qr is a quotient with a remainder in one limb, or in limbs
DivBySmall(s, qr, e) == DivRounded(s, qr.q, qr.r = 0, e)

DivByLong(s, qr, e) == DivRounded(s, qr.q, qr.r = <<>>, e)

\* a / b from the quotient of a.m * 2^K by b.m, of more than Mant + 2 bits;
\* sh makes the top limb of a longer b.m at least Base / 2
DivFin(a, b, K, sh) ==
    IF Len(b.m) = 1
    THEN DivBySmall(a.s * b.s, NatDivRem(NatShl(a.m, K), b.m[1]), a.e - b.e + K)
    ELSE DivByLong(a.s * b.s, NatLongDiv(NatShl(a.m, K + sh), NatShl(b.m, sh)),
                   a.e - b.e + K)

\* The bits a.m is shifted by before it is divided by b.m
DivShift(a, b) ==
    IF Mant + 3 + NatBitLen(b.m) > NatBitLen(a.m)
    THEN Mant + 3 + NatBitLen(b.m) - NatBitLen(a.m) ELSE 0

\* a / b for finite non-zero a and b; a power of two divides exactly
DivNum(a, b) ==
    IF b.m = <<1>> THEN [a EXCEPT !.s = a.s * b.s, !.e = a.e - b.e]
    ELSE DivFin(a, b, DivShift(a, b), LimbBits - LimbLen(b.m[Len(b.m)]))

\* a / b where any division by zero gives NaN
DivZeroNaN(a, b) ==
    IF a.k = "nan" \/ b.k = "nan" THEN NaN
    ELSE IF a.k = "inf" THEN (IF b.k = "inf" \/ b.m = <<>> THEN NaN ELSE Inf(a.s * b.s))
    ELSE IF b.k = "inf" THEN SignedZero(a.s * b.s)
    ELSE IF b.m = <<>> THEN NaN
    ELSE IF a.m = <<>> THEN SignedZero(a.s * b.s)
    ELSE DivNum(a, b)

\* a / b: no ZeroDivisionError in a float column; x / 0 is an infinity with
\* the sign of x times the sign of the zero, 0 / 0 and inf / inf are NaN
Div(a, b) ==
    IF a.k = "nan" \/ b.k = "nan" THEN NaN
    ELSE IF a.k = "inf" THEN (IF b.k = "inf" THEN NaN ELSE Inf(a.s * b.s))
    ELSE IF b.k = "inf" THEN SignedZero(a.s * b.s)
    ELSE IF b.m = <<>> THEN (IF a.m = <<>> THEN NaN ELSE Inf(a.s * b.s))
    ELSE IF a.m = <<>> THEN SignedZero(a.s * b.s)
    ELSE DivNum(a, b)

\* a == b as floats compare: NaN equals nothing, -0.0 equals 0.0
NumEq(a, b) ==
    /\ a.k # "nan" /\ b.k # "nan"
    /\ a = b \/ (IsZero(a) /\ IsZero(b))

\* a >= 0 in place of a > 0
IsNonNeg(a) == a.k # "nan" /\ (a.s = 1 \/ IsZero(a))

\* a > 0; False for NaN and for both zeros
IsPos(a) == a.k # "nan" /\ a.s = 1 /\ ~IsZero(a)

\* a < 0
IsNeg(a) == a.k # "nan" /\ a.s = -1 /\ ~IsZero(a)

(***************************************************************************)
(* DataFrames of the feature side.  A frame is [index, columns, data]:     *)
(* the dates of its rows, its column names in order and, per column, the   *)
(* values row by row.  A date is a day number of 2021 (0 is January 1st).  *)
(* none tells None from a frame.  A cell is a number, NaN, an infinity or  *)
(* a text; every cell has the field k that tells which.                    *)
(***************************************************************************)
\* None where a frame is expected
NoneDf == [none |-> TRUE, index |-> <<>>, columns |-> <<>>, data |-> <<>>]

\* d[name] = values: a new column goes last, an old one keeps its place
AssignCol(d, name, values) ==
    [none    |-> FALSE,
     index   |-> d.index,
     columns |-> IF \E i \in 1..Len(d.columns) : d.columns[i] = name
                 THEN d.columns ELSE Append(d.columns, name),
     data    |-> [c \in (DOMAIN d.data) \cup {name} |->
                     IF c = name THEN values ELSE d.data[c]]]

\* Series.shift(-k) in place of shift(k): row i takes the value of row i + k
Lead(col, k) ==
    [i \in 1..Len(col) |-> IF i + k >= 1 /\ i + k <= Len(col) THEN col[i + k] ELSE NaN]

\* Series.shift(k): row i takes the value of row i - k, NaN where there is none
Shift(col, k) ==
    [i \in 1..Len(col) |-> IF i - k >= 1 /\ i - k <= Len(col) THEN col[i - k] ELSE NaN]

\* Series.diff()
Diff(col) == [i \in 1..Len(col) |-> Sub(col[i], Shift(col, 1)[i])]

\* data / data.shift(periods), the ratio without the - 1
SeriesRatio(col, periods) ==
    [i \in 1..Len(col) |-> Div(col[i], Shift(col, periods)[i])]

\* Series.pct_change(periods): data / data.shift(periods) - 1
SeriesPctChange(col, periods) ==
    [i \in 1..Len(col) |-> Sub(Div(col[i], Shift(col, periods)[i]), One)]

\* series * by, series - other, -series
ScaleSeq(col, by) == [i \in 1..Len(col) |-> Mul(col[i], by)]

AddSeqs(col, other) == [i \in 1..Len(col) |-> Add(col[i], other[i])]

SubSeqs(col, other) == [i \in 1..Len(col) |-> Sub(col[i], other[i])]

NegSeq(col) == [i \in 1..Len(col) |-> Neg(col[i])]

\* Series.clip(lower=0) and Series.clip(upper=0); NaN stays NaN
ClipLower(col) == [i \in 1..Len(col) |-> IF IsNeg(col[i]) THEN Zero ELSE col[i]]

ClipUpper(col) == [i \in 1..Len(col) |-> IF IsPos(col[i]) THEN Zero ELSE col[i]]

RECURSIVE SumNum(_, _, _)
\* col[i] + ... + col[j]
SumNum(col, i, j) == IF i > j THEN Zero ELSE Add(col[i], SumNum(col, i + 1, j))

\* The running state of pandas' rolling mean before the first row: the
\* count of values in the window, their compensated sum, the count of
\* negative ones, the two compensations, the length of the run of equal
\* values that ends the window and the last value
RollInit(first) ==
    [nobs |-> 0, sum_x |-> Zero, neg_ct |-> 0, comp_add |-> Zero, comp_remove |-> Zero,
     same |-> 0, prev |-> first]

\* add_mean after y = val - compensation and t = sum_x + y
AddMeanSum(st, val, y, t) ==
    [st EXCEPT !.nobs = @ + 1, !.sum_x = t, !.comp_add = Sub(Sub(t, st.sum_x), y),
               !.neg_ct = @ + (IF val.s = -1 THEN 1 ELSE 0),
               !.same = IF NumEq(val, st.prev) THEN @ + 1 ELSE 1, !.prev = val]

AddMeanTerm(st, val, y) == AddMeanSum(st, val, y, Add(st.sum_x, y))

\* A value enters the window; NaN is passed over
add_mean(st, val) == IF IsNaN(val) THEN st ELSE AddMeanTerm(st, val, Sub(val, st.comp_add))

\* remove_mean after y = -val - compensation and t = sum_x + y
RemoveMeanSum(st, val, y, t) ==
    [st EXCEPT !.nobs = @ - 1, !.sum_x = t, !.comp_remove = Sub(Sub(t, st.sum_x), y),
               !.neg_ct = @ - (IF val.s = -1 THEN 1 ELSE 0)]

RemoveMeanTerm(st, val, y) == RemoveMeanSum(st, val, y, Add(st.sum_x, y))

\* A value leaves the window
remove_mean(st, val) ==
    IF IsNaN(val) THEN st ELSE RemoveMeanTerm(st, val, Sub(Neg(val), st.comp_remove))

\* The mean of a window that is not a run of one value: 0 when its sign is
\* not that of the values
MeanOf(st, result) ==
    IF st.neg_ct = 0 /\ IsNeg(result) THEN Zero
    ELSE IF st.neg_ct = st.nobs /\ IsPos(result) THEN Zero
    ELSE result

\* The mean of the window, NaN while it holds fewer than minp values
calc_mean(minp, st) ==
    IF st.nobs >= minp /\ st.nobs > 0
    THEN (IF st.same >= st.nobs THEN st.prev
          ELSE MeanOf(st, Div(st.sum_x, NumOf(st.nobs))))
    ELSE NaN

RECURSIVE RollFrom(_, _, _, _)
RECURSIVE RollCons(_, _, _, _)
\* Rows i.. of the rolling mean, st being the state after row i - 1: the
\* value w rows back leaves the window and that of row i enters
RollFrom(col, w, i, st) ==
    IF i > Len(col) THEN <<>>
    ELSE RollCons(col, w, i,
                  add_mean(IF i > w THEN remove_mean(st, col[i - w]) ELSE st, col[i]))

\* Row i, then the rows after it
RollCons(col, w, i, st) == <<calc_mean(w, st)>> \o RollFrom(col, w, i + 1, st)

\* Series.rolling(w).mean(): NaN until the window holds w values, none NaN
RollingMean(col, w) ==
    IF col = <<>> THEN <<>> ELSE RollFrom(col, w, 1, RollInit(col[1]))

\* alpha = 1 / (1 + com), com = (span - 1) / 2
EwmAlpha(span) == Div(One, Add(One, Div(NumOf(span - 1), NumOf(2))))

\* The weights of a step, the same at every step when adjust is False:
\* old_wt = 1 * old_wt_factor = 1 - alpha, new_wt = alpha, and their sum
SumOfWeights(old_wt, new_wt) ==
    [old_wt |-> old_wt, new_wt |-> new_wt, sum |-> Add(old_wt, new_wt)]

EwmWeights(alpha) == SumOfWeights(Sub(One, alpha), alpha)

\* One step of the exponential average: `if weighted != cur:
\* weighted = old_wt * weighted + new_wt * cur; weighted /= old_wt + new_wt`
EwmStep(weighted, cur, wt) ==
    IF NumEq(weighted, cur) THEN weighted
    ELSE Div(Add(Mul(wt.old_wt, weighted), Mul(wt.new_wt, cur)), wt.sum)

RECURSIVE EwmFrom(_, _, _, _)
RECURSIVE EwmCons(_, _, _, _)
\* Rows i.. of the exponential average, `weighted` being row i - 1
EwmFrom(col, i, weighted, wt) ==
    IF i > Len(col) THEN <<>>
    ELSE EwmCons(EwmStep(weighted, col[i], wt), col, i, wt)

\* Row i, then the rows after it
EwmCons(nxt, col, i, wt) == <<nxt>> \o EwmFrom(col, i + 1, nxt, wt)

\* Series.ewm(span=span, adjust=False).mean() of a column without NaN:
\* y[0] = x[0], y[t] = ((1 - alpha) y[t-1] + alpha x[t]) / ((1 - alpha) + alpha)
EwmMean(col, span) ==
    IF col = <<>> THEN <<>>
    ELSE <<col[1]>> \o EwmFrom(col, 2, col[1], EwmWeights(EwmAlpha(span)))

\* DatetimeIndex.dayofweek (Monday is 0); January 1st 2021 is a Friday
DayOfWeek(date) == (date + 4) % 7

\* Days of 2021 before each month, and the year's length
MonthStart == <<0, 31, 59, 90, 120, 151, 181, 212, 243, 273, 304, 334, 365>>

\* DatetimeIndex.month
MonthOf(date) == CHOOSE m \in 1..12 : MonthStart[m] <= date /\ date < MonthStart[m + 1]

\* The frame as it is, no row dropped
KeepRows(d) == d

\* DataFrame.dropna(): the rows without NaN in any column
DropNa(d) ==
    LET keep == {i \in 1..Len(d.index) : \A c \in DOMAIN d.data : ~IsNaN(d.data[c][i])}
        pick == [k \in 1..Cardinality(keep) |->
                    CHOOSE i \in keep : Cardinality({j \in keep : j < i}) = k - 1]
    IN  [none    |-> FALSE,
         index   |-> [k \in 1..Cardinality(keep) |-> d.index[pick[k]]],
         columns |-> d.columns,
         data    |-> [c \in DOMAIN d.data |->
                         [k \in 1..Cardinality(keep) |-> d.data[c][pick[k]]]]]

(***************************************************************************)
(* FeatureEngineering.  fe is the instance: [short, long, rsi].            *)
(***************************************************************************)
\* FeatureEngineering.__init__
FeatureEngineering(short, long, rsi) == [short |-> short, long |-> long, rsi |-> rsi]

\* FeatureEngineering(): the default windows
DefaultWindows == FeatureEngineering(5, 20, 14)

\* macd's default spans
MacdFast == 12
MacdSlow == 26
MacdSig == 9

pct_change(d) ==
    AssignCol(d, "pct_change", ScaleSeq(SeriesPctChange(d.data["close"], 1), Hundred))

sma(fe, d) ==
    AssignCol(AssignCol(d, "sma_" \o ToString(fe.short),
                        RollingMean(d.data["close"], fe.short)),
              "sma_" \o ToString(fe.long), RollingMean(d.data["close"], fe.long))

ema(fe, d) ==
    AssignCol(AssignCol(d, "ema_" \o ToString(fe.short),
                        EwmMean(d.data["close"], fe.short)),
              "ema_" \o ToString(fe.long), EwmMean(d.data["close"], fe.long))

\* up = delta.clip(lower=0).rolling(period).mean()
RsiUp(d, period) == RollingMean(ClipLower(Diff(d.data["close"])), period)

\* down = -delta.clip(upper=0).rolling(period).mean()
RsiDown(d, period) == NegSeq(RollingMean(ClipUpper(Diff(d.data["close"])), period))

\* 100 - (100 / (1 + rs)), rs = up / down
RsiOf(up, down) ==
    [i \in 1..Len(up) |-> Sub(Hundred, Div(Hundred, Add(One, Div(up[i], down[i]))))]

\* period = 0 stands for None: `period = period or self.rsi`
rsi_simple(fe, d, period) ==
    AssignCol(d, "rsi", RsiOf(RsiUp(d, IF period = 0 THEN fe.rsi ELSE period),
                              RsiDown(d, IF period = 0 THEN fe.rsi ELSE period)))

\* The three MACD columns from the macd line and its signal
MacdCols(d, line, signal) ==
    AssignCol(AssignCol(AssignCol(d, "macd", line), "macd_signal", signal),
              "macd_hist", SubSeqs(line, signal))

MacdSignal(d, line, sig) == MacdCols(d, line, EwmMean(line, sig))

macd(d, fast, slow, sig) ==
    MacdSignal(d, SubSeqs(EwmMean(d.data["close"], fast), EwmMean(d.data["close"], slow)),
               sig)

RECURSIVE LagFrom(_, _, _)
\* lag_i, ..., lag_n
LagFrom(d, i, n) ==
    IF i > n THEN d
    ELSE LagFrom(AssignCol(d, "lag_" \o ToString(i), Shift(d.data["pct_change"], i)),
                 i + 1, n)

lag(d, n) == LagFrom(d, 1, n)

temporal(d) ==
    AssignCol(AssignCol(d, "dow", [i \in 1..Len(d.index) |-> NumOf(DayOfWeek(d.index[i]))]),
              "month", [i \in 1..Len(d.index) |-> NumOf(MonthOf(d.index[i]))])

\* price_up = (future_return > 0).astype(float)
TargetCols(d, future_return) ==
    AssignCol(AssignCol(d, "future_return", future_return), "price_up",
              [i \in 1..Len(future_return) |->
                  IF IsPos(future_return[i]) THEN One ELSE Zero])

add_targets(d, shift) ==
    TargetCols(d, ScaleSeq(Shift(SeriesPctChange(d.data["close"], shift), -shift), Hundred))

\* `if include_target: df = self.add_targets(df)`
WithTargets(d, include_target) == IF include_target THEN add_targets(d, 1) ELSE d

engineer(fe, d, include_target, lags) ==
    WithTargets(
        temporal(lag(macd(rsi_simple(fe, ema(fe, sma(fe, pct_change(d))), 0),
                          MacdFast, MacdSlow, MacdSig), lags)),
        include_target)

(***************************************************************************)
(* Tables.  A table is a DataFrame: its rows in positional order, each     *)
(* with its index label (date), its position in the frame it came from     *)
(* (pos, standing for the row's own feature values) and its target (y).    *)
(***************************************************************************)
Labels == {0, 1}

Frame(dates, ys, dt, nc) ==
    [none |-> FALSE, datetime |-> dt, ncols |-> nc,
     rows |-> [i \in 1..Len(dates) |-> [date |-> dates[i], pos |-> i, y |-> ys[i]]]]

NoneFrame == [none |-> TRUE, datetime |-> FALSE, ncols |-> 0, rows |-> <<>>]

SeqsOf(S, n) == [1..n -> S]

ArbitraryTables ==
    UNION {{Frame(d, l, dt, nc) :
                d \in SeqsOf(1..MaxDate, n), l \in SeqsOf(Labels, n),
                dt \in BOOLEAN, nc \in {0, 1}} : n \in 0..SmallRows}

ConsecutiveTables ==
    UNION {{Frame([i \in 1..n |-> i], l, TRUE, 1) : l \in SeqsOf(Labels, n)}
           : n \in (SmallRows + 1)..MaxRows}

Tables == ArbitraryTables \cup ConsecutiveTables \cup {NoneFrame}

TestSizes == {<<p, TSDen>> : p \in 1..(TSDen - 1)}

IsSorted(rows) == \A i \in 1..(Len(rows) - 1) : rows[i].date <= rows[i + 1].date

VARIABLES
    test_size,  \* TimeSeriesSplit.test_size, the literal <<p, q>> for p/q
    df,         \* the table handed to split / prepare_data
    pc,         \* "start" before the call, "done" after it
    op,         \* the call made: "none" before it, then the method's name
    raised,     \* whether the call raised
    train,      \* split's first result (rows)
    test,       \* split's second result (rows)
    y_train,    \* prepare_data's third result
    y_test,     \* prepare_data's fourth result
    fe,         \* the FeatureEngineering instance (the one DataPrep.engineer built)
    df_filtered, \* the price frame handed to the feature methods
    args,       \* the arguments of the call made
    eng,        \* the frame FeatureEngineering returned
    df_eng,     \* DataPrep.df_eng
    csv,        \* the rows of the file DataPrep.file_path names
    pattern,    \* the stock_index_pattern of the call, a sequence of characters
    features,   \* DataPrep.features
    trainer,    \* the trainer instance, or the mark that there is none
    xgboost,    \* whether the xgboost package can be imported
    result,     \* what the last call on the trainer returned
    error,      \* the exception the last call raised, "" if none
    calls,      \* the number of calls made on the trainer
    fit_returned \* history: whether a fit on the trainer has returned

splitVars == <<test_size, df, train, test, y_train, y_test>>

feVars == <<fe, df_filtered, args, eng, df_eng>>

prepVars == <<csv, pattern, features>>

trainerVars == <<trainer, xgboost, result, error, calls, fit_returned>>

vars == <<pc, op, raised, splitVars, feVars, prepVars, trainerVars>>

\* None where a list is expected
NoneList == [none |-> TRUE, list |-> <<>>]

\* No trainer constructed
NoTrainer == [none |-> TRUE]

\* None as a call's result
NoResult == [none |-> TRUE]

\* The DataPrep of a specification that makes no call on one
IdlePrep == csv = <<>> /\ pattern = <<>> /\ features = NoneList

\* The trainer of a specification that makes no call on one
IdleTrainer ==
    /\ trainer = NoTrainer
    /\ xgboost = FALSE
    /\ result = NoResult
    /\ error = ""
    /\ calls = 0
    /\ fit_returned = FALSE

(***************************************************************************)
(* TimeSeriesSplit                                                         *)
(***************************************************************************)
\* TimeSeriesSplit.__init__ accepts test_size: 0.0 < test_size < 1.0
ValidTestSize(ts) == 0 < ts[1] /\ ts[1] < ts[2]

\* df.empty: no rows or no columns
Empty(t) == Len(t.rows) = 0 \/ t.ncols = 0

\* TRUE when _validate_input raises ValueError
ValidateInputRaises(t) ==
    \/ t.none \/ Empty(t)
    \/ ~t.datetime
    \/ Len(t.rows) < 2

\* split_point = int(n * (1 - self.test_size))
SplitPoint(n, ts) == Trunc(MulInt(n, OneMinus(DoubleOfRatio(ts[1], ts[2]))))

\* df.iloc[:k]
ILocTo(rows, k) == SubSeq(rows, 1, k)
\* df.iloc[k:]
ILocFrom(rows, k) == SubSeq(rows, k + 1, Len(rows))

InitSplit ==
    /\ test_size \in {ts \in TestSizes : ValidTestSize(ts)}
    /\ df \in Tables
    /\ pc = "start"
    /\ op = "none"
    /\ raised = FALSE
    /\ train = <<>>
    /\ test = <<>>
    /\ y_train = <<>>
    /\ y_test = <<>>
    /\ fe = FeatureEngineering(1, 1, 1)
    /\ df_filtered = NoneDf
    /\ args = <<>>
    /\ eng = NoneDf
    /\ df_eng = NoneDf
    /\ IdlePrep
    /\ IdleTrainer

\* TimeSeriesSplit.split(df)
Split ==
    /\ pc = "start"
    /\ pc' = "done"
    /\ op' = "split"
    /\ IF ValidateInputRaises(df)
       THEN /\ raised' = TRUE
            /\ UNCHANGED <<train, test>>
       ELSE LET split_point == SplitPoint(Len(df.rows), test_size)
            IN  /\ raised' = FALSE
                /\ train' = ILocTo(df.rows, split_point)
                /\ test' = ILocFrom(df.rows, split_point)
    /\ UNCHANGED <<test_size, df, y_train, y_test, feVars, prepVars, trainerVars>>

(***************************************************************************)
(* BaseTrainer.prepare_data                                                *)
(***************************************************************************)
\* The rows of y labelled d, in y's order.
RECURSIVE LocOne(_, _)
LocOne(y, d) ==
    IF y = <<>> THEN <<>>
    ELSE (IF Head(y).date = d THEN <<Head(y)>> ELSE <<>>) \o LocOne(Tail(y), d)

\* y.loc[index]: for each label of index, in order, every row of y with it
RECURSIVE Loc(_, _)
Loc(y, index) ==
    IF index = <<>> THEN <<>>
    ELSE LocOne(y, Head(index)) \o Loc(y, Tail(index))

\* X.index
IndexOf(rows) == [i \in 1..Len(rows) |-> rows[i].date]

\* BaseTrainer.prepare_data(df, ts_split): X and y are the feature and
\* target columns of the same rows
PrepareData ==
    /\ pc = "start"
    /\ ~df.none
    /\ pc' = "done"
    /\ op' = "prepare_data"
    /\ IF ValidateInputRaises(df)
       THEN /\ raised' = TRUE
            /\ UNCHANGED <<train, test, y_train, y_test>>
       ELSE LET split_point == SplitPoint(Len(df.rows), test_size)
                X_train == ILocTo(df.rows, split_point)
                X_test  == ILocFrom(df.rows, split_point)
            IN  /\ raised' = FALSE
                /\ train' = X_train
                /\ test' = X_test
                /\ y_train' = Loc(df.rows, IndexOf(X_train))
                /\ y_test' = Loc(df.rows, IndexOf(X_test))
    /\ UNCHANGED <<test_size, df, feVars, prepVars, trainerVars>>

NextSplit == Split \/ PrepareData

SpecSplit == InitSplit /\ [][NextSplit]_vars

(***************************************************************************)
(* The feature side: a FeatureEngineering instance, one call on a price    *)
(* frame.                                                                  *)
(***************************************************************************)
\* A price frame of consecutive days from January 30th 2021 on
PriceFrame(closes) ==
    [none    |-> FALSE,
     index   |-> [i \in 1..Len(closes) |-> 28 + i],
     columns |-> <<"close">>,
     data    |-> [c \in {"close"} |-> closes]]

RECURSIVE SumInt(_, _)
\* st[1] + ... + st[k]
SumInt(st, k) == IF k = 0 THEN 0 ELSE st[k] + SumInt(st, k - 1)

\* Closes that start at base and move by one step a day
ClosesFrom(base, st) == [i \in 1..(Len(st) + 1) |-> NumOf(base + SumInt(st, i - 1))]

\* Closes that start at FERows and move by one step a day
StepCloses(st) == ClosesFrom(FERows, st)

\* The steps of n rows: the first k are x, the others y
TwoSlopes(n, k, x, y) == [i \in 1..(n - 1) |-> IF i <= k THEN x ELSE y]

\* Closes of n <= PrepRows rows that start at PrepRows, move by x for k
\* days and by y from then on; they stay positive
LongCloses(n, k, x, y) == ClosesFrom(PrepRows, TwoSlopes(n, k, x, y))

RECURSIVE NatPow(_, _)
\* b^k for 0 < b < Base
NatPow(b, k) == IF k = 0 THEN <<1>> ELSE NatMulSmall(NatPow(b, k - 1), b, 0)

\* Closes that start at 100 and rise by 1% a day: the doubles nearest to
\* 100 * 1.01^(i - 1), as the file's decimals are read
GrowthCloses(n) ==
    [i \in 1..n |-> Div(Round(1, NatMulSmall(NatPow(101, i - 1), 100, 0), 0),
                        Round(1, NatPow(100, i - 1), 0))]

PriceFrames ==
    {PriceFrame(StepCloses(st)) : st \in UNION {[1..m -> {-1, 0, 1}] : m \in 0..(FERows - 1)}}
    \cup {PriceFrame(GrowthCloses(n)) : n \in 2..FERows}

\* The frames of PrepRows - 1 and of PrepRows rows whose closes change
\* their slope at most once, on the day before the default RSI period is
\* over or later
LongFrames ==
    {PriceFrame(LongCloses(n, k, x, y)) :
        n \in (PrepRows - 1)..PrepRows, k \in (DefaultWindows.rsi - 1)..(PrepRows - 1),
        x \in {-1, 0, 1}, y \in {-1, 0, 1}}

\* The instances: long and rsi range over 1..MaxWindow, short is half of
\* long, rounded up
Windows ==
    {FeatureEngineering((l + 1) \div 2, l, r) : l \in 1..MaxWindow, r \in 1..MaxWindow}

InitFE ==
    /\ fe \in Windows
    /\ df_filtered \in PriceFrames
    /\ pc = "start"
    /\ op = "none"
    /\ raised = FALSE
    /\ args = [include_target |-> FALSE, lags |-> 0, shift |-> 0]
    /\ eng = NoneDf
    /\ df_eng = NoneDf
    /\ test_size = <<1, TSDen>>
    /\ df = NoneFrame
    /\ train = <<>>
    /\ test = <<>>
    /\ y_train = <<>>
    /\ y_test = <<>>
    /\ IdlePrep
    /\ IdleTrainer

\* The arguments <<include_target, lags>> of engineer: the targets with
\* each number of lags, and neither targets nor lags
EngineerCalls == {<<TRUE, lags>> : lags \in 0..MaxLags} \cup {<<FALSE, 0>>}

\* fe.engineer(df_filtered, include_target, lags)
FEEngineer ==
    /\ pc = "start"
    /\ \E call \in EngineerCalls :
         /\ args' = [include_target |-> call[1], lags |-> call[2], shift |-> 1]
         /\ eng' = engineer(fe, df_filtered, call[1], call[2])
    /\ pc' = "done"
    /\ op' = "engineer"
    /\ UNCHANGED <<raised, fe, df_filtered, df_eng, splitVars, prepVars, trainerVars>>

\* fe.add_targets(df_filtered, shift=shift)
FEAddTargets ==
    /\ pc = "start"
    /\ \E shift \in 1..MaxShift :
         /\ args' = [include_target |-> TRUE, lags |-> 0, shift |-> shift]
         /\ eng' = add_targets(df_filtered, shift)
    /\ pc' = "done"
    /\ op' = "add_targets"
    /\ UNCHANGED <<raised, fe, df_filtered, df_eng, splitVars, prepVars, trainerVars>>

\* One call of a FeatureEngineering method
NextFE == FEEngineer \/ FEAddTargets

SpecFE == InitFE /\ [][NextFE]_vars

(***************************************************************************)
(* data_loader.load_data.  The file is a sequence of rows                  *)
(* [Index, Date, Open, High, Low, Close, Volume]; a text is a sequence of  *)
(* characters, a date a day number, a price or a volume a number or NaN    *)
(* (an empty field).                                                       *)
(***************************************************************************)
\* A text cell of a frame
Str(chars) == [k |-> "str", v |-> chars]

\* DataCleaner.rename_columns: the index codes and the names they get
stock_index_mapping ==
    {<<<<"N", "Y", "A">>, <<"N", "e", "w", " ", "Y", "o", "r", "k">>>>,
     <<<<"I", "X", "I", "C">>, <<"N", "A", "S", "D", "A", "Q">>>>,
     <<<<"H", "S", "I">>, <<"H", "o", "n", "g", " ", "K", "o", "n", "g">>>>,
     <<<<"0", "0", "0", "0", "0", "1", ".", "S", "S">>,
       <<"S", "h", "a", "n", "g", "h", "a", "i">>>>,
     <<<<"N", "2", "2", "5">>, <<"T", "o", "k", "y", "o">>>>,
     <<<<"N", "1", "0", "0">>, <<"E", "u", "r", "o", "n", "e", "x", "t">>>>,
     <<<<"3", "9", "9", "0", "0", "1", ".", "S", "Z">>,
       <<"S", "h", "e", "n", "z", "h", "e", "n">>>>,
     <<<<"G", "S", "P", "T", "S", "E">>, <<"T", "o", "r", "o", "n", "t", "o">>>>,
     <<<<"N", "S", "E", "I">>, <<"I", "n", "d", "i", "a">>>>,
     <<<<"G", "D", "A", "X", "I">>, <<"F", "r", "a", "n", "k", "f", "u", "r", "t">>>>,
     <<<<"K", "S", "1", "1">>, <<"K", "o", "r", "e", "a">>>>,
     <<<<"S", "S", "M", "I">>,
       <<"S", "w", "i", "t", "z", "e", "r", "l", "a", "n", "d">>>>,
     <<<<"T", "W", "I", "I">>, <<"T", "a", "i", "w", "a", "n">>>>,
     <<<<"J", "2", "0", "3", ".", "J", "O">>,
       <<"J", "o", "h", "a", "n", "n", "e", "s", "b", "u", "r", "g">>>>}

\* .replace({'stock_index': stock_index_mapping}) on one value
ReplaceIndex(code) ==
    IF \E m \in stock_index_mapping : m[1] = code
    THEN (CHOOSE m \in stock_index_mapping : m[1] = code)[2]
    ELSE code

\* DataCleaner.rename_columns: the columns take their lower-case names and
\* the index codes their names
rename_columns(rows) ==
    [i \in 1..Len(rows) |->
        [stock_index |-> ReplaceIndex(rows[i].Index), date |-> rows[i].Date,
         open |-> rows[i].Open, high |-> rows[i].High, low |-> rows[i].Low,
         close |-> rows[i].Close, volume |-> rows[i].Volume]]

RECURSIVE InsertByDate(_, _)
\* r goes behind every row of the sorted rows whose date is not later
InsertByDate(sorted, r) ==
    IF sorted = <<>> THEN <<r>>
    ELSE IF Head(sorted).date <= r.date
         THEN <<Head(sorted)>> \o InsertByDate(Tail(sorted), r)
         ELSE <<r>> \o sorted

RECURSIVE SortByDate(_, _)
\* sort_index: the rows by date, rows of one date in the order they had
SortByDate(rows, k) ==
    IF k = 0 THEN <<>> ELSE InsertByDate(SortByDate(rows, k - 1), rows[k])

\* The columns of the loaded frame
LoadedColumns == <<"stock_index", "open", "high", "low", "close", "volume">>

\* df.set_index('date')
SetIndex(rows) ==
    [none    |-> FALSE,
     index   |-> [i \in 1..Len(rows) |-> rows[i].date],
     columns |-> LoadedColumns,
     data    |-> [c \in {LoadedColumns[j] : j \in 1..Len(LoadedColumns)} |->
                     [i \in 1..Len(rows) |->
                         IF c = "stock_index" THEN Str(rows[i].stock_index)
                         ELSE rows[i][c]]]]

\* DataCleaner.set_and_sort
set_and_sort(rows) == SetIndex(SortByDate(rows, Len(rows)))

\* df[mask]: the rows at the positions of keep, in order
Mask(d, keep) ==
    LET pick == [k \in 1..Cardinality(keep) |->
                    CHOOSE i \in keep : Cardinality({j \in keep : j < i}) = k - 1]
    IN  [none    |-> FALSE,
         index   |-> [k \in 1..Cardinality(keep) |-> d.index[pick[k]]],
         columns |-> d.columns,
         data    |-> [c \in DOMAIN d.data |->
                         [k \in 1..Cardinality(keep) |-> d.data[c][pick[k]]]]]

core_columns == {"open", "high", "low", "close", "volume"}

\* DataCleaner.drop_rows_with_missing_data: dropna(subset=core_columns)
drop_rows_with_missing_data(d) ==
    Mask(d, {i \in 1..Len(d.index) : \A c \in core_columns : ~IsNaN(d.data[c][i])})

\* DataCleaner.drop_rows_with_zero_volume: df[df['volume'] > 0]
drop_rows_with_zero_volume(d) ==
    Mask(d, {i \in 1..Len(d.index) : IsPos(d.data["volume"][i])})

\* load_data(file_path=...): no stock_index, start_date or end_date given
load_data(file) ==
    drop_rows_with_zero_volume(
        drop_rows_with_missing_data(set_and_sort(rename_columns(file))))

(***************************************************************************)
(* DataPrep                                                                *)
(***************************************************************************)
UpperCase == <<"A", "B", "C", "D", "E", "F", "G", "H", "I", "J", "K", "L", "M",
               "N", "O", "P", "Q", "R", "S", "T", "U", "V", "W", "X", "Y", "Z">>

LowerCase == <<"a", "b", "c", "d", "e", "f", "g", "h", "i", "j", "k", "l", "m",
               "n", "o", "p", "q", "r", "s", "t", "u", "v", "w", "x", "y", "z">>

\* case=False: a letter counts as its lower-case form
Lower(c) ==
    IF \E i \in 1..Len(UpperCase) : UpperCase[i] = c
    THEN LowerCase[CHOOSE i \in 1..Len(UpperCase) : UpperCase[i] = c]
    ELSE c

\* str.contains(pat, case=False) for a pattern of letters: pat occurs
\* somewhere in text
Contains(text, pat) ==
    \E i \in 0..(Len(text) - Len(pat)) :
        \A j \in 1..Len(pat) : Lower(text[i + j]) = Lower(pat[j])

\* df[mask].copy() of load_and_filter
FilterPattern(d, pat) ==
    Mask(d, {i \in 1..Len(d.index) : Contains(d.data["stock_index"][i].v, pat)})

\* DataPrep.load_and_filter: the filtered frame; it raises SystemExit when
\* the frame has no row
load_and_filter(file, pat) == FilterPattern(load_data(file), pat)

DEFAULT_CANDIDATE_FEATURES ==
    <<"pct_change", "sma_5", "sma_20", "ema_5", "ema_20",
      "rsi", "macd", "macd_signal", "macd_hist",
      "lag_1", "lag_2", "lag_3", "dow", "month">>

\* `name in df.columns`
HasColumn(d, name) == \E i \in 1..Len(d.columns) : d.columns[i] = name

\* SelectSeq without a LAMBDA: the names of list, from position i on, that
\* are columns of d
RECURSIVE PresentFrom(_, _, _)
PresentFrom(list, d, i) ==
    IF i > Len(list) THEN <<>>
    ELSE (IF HasColumn(d, list[i]) THEN <<list[i]>> ELSE <<>>)
         \o PresentFrom(list, d, i + 1)

\* DataPrep.select_features: `candidate_features or DEFAULT...`, then the
\* candidates that are columns of df_eng; an empty list raises SystemExit
select_features(d, candidate_features) ==
    PresentFrom(IF candidate_features.none \/ candidate_features.list = <<>>
                THEN DEFAULT_CANDIDATE_FEATURES ELSE candidate_features.list, d, 1)

\* df_eng['price_up'].nunique()
n_classes(d) == Cardinality({d.data["price_up"][i] : i \in 1..Len(d.index)})

\* df_eng['price_up'].sum()
n_positive(d) == SumNum(d.data["price_up"], 1, Len(d.index))

\* The test of the positives alone, without that of the classes
NoPositive(d) == n_positive(d) = Zero

\* TRUE when DataPrep.validate raises SystemExit
ValidateRaises(d) == n_classes(d) < 2 \/ n_positive(d) = Zero

(***************************************************************************)
(* A fresh DataPrep and a price frame: engineer, then select_features or   *)
(* validate, or one of these two at once.                                  *)
(***************************************************************************)
\* No FeatureEngineering instance built yet
NoInstance == [none |-> TRUE]

\* The frames handed to DataPrep.engineer: the short ones, of which the
\* default windows leave no row, and the long ones
PrepFrames == PriceFrames \cup LongFrames

\* candidate_features: None, for the default candidates, or a list that
\* names no column
CandidateLists == {NoneList, [none |-> FALSE, list |-> <<"obv">>]}

InitPrep ==
    /\ fe = NoInstance
    /\ df_filtered \in PrepFrames
    /\ pc = "start"
    /\ op = "none"
    /\ raised = FALSE
    /\ args = [include_target |-> FALSE, lags |-> 0, shift |-> 0]
    /\ eng = NoneDf
    /\ df_eng = NoneDf
    /\ test_size = <<1, TSDen>>
    /\ df = NoneFrame
    /\ train = <<>>
    /\ test = <<>>
    /\ y_train = <<>>
    /\ y_test = <<>>
    /\ IdlePrep
    /\ IdleTrainer

\* DataPrep.engineer(df_filtered, lags): the method builds its own
\* FeatureEngineering(), with the default windows, engineers with the
\* targets and drops the incomplete rows
DataPrepEngineer ==
    /\ pc = "start"
    /\ fe' = DefaultWindows
    /\ \E lags \in 0..MaxLags :
         /\ args' = [include_target |-> TRUE, lags |-> lags, shift |-> 1]
         /\ eng' = engineer(fe', df_filtered, TRUE, lags)
    /\ IF HasColumn(eng', "price_up")
       THEN raised' = FALSE /\ error' = "" /\ df_eng' = DropNa(eng')
       ELSE raised' = TRUE /\ error' = "Target column price_up not created"
            /\ UNCHANGED df_eng
    /\ pc' = "done"
    /\ op' = "DataPrep.engineer"
    /\ UNCHANGED <<df_filtered, splitVars, prepVars, trainer, xgboost, result, calls,
                   fit_returned>>

\* The instance is fresh, or engineer has returned on it
BeforeOrAfterEngineer == pc = "start" \/ (pc = "done" /\ op = "DataPrep.engineer" /\ ~raised)

\* DataPrep.select_features(candidate_features)
SelectFeatures ==
    /\ BeforeOrAfterEngineer
    /\ \E cand \in CandidateLists :
         /\ args' = [include_target |-> args.include_target, lags |-> args.lags,
                     shift |-> args.shift, candidate_features |-> cand]
         /\ IF df_eng.none
            THEN /\ raised' = TRUE
                 /\ error' = "Must call engineer() first"
                 /\ UNCHANGED features
            ELSE IF select_features(df_eng, cand) = <<>>
            THEN /\ raised' = TRUE
                 /\ error' = "No valid features found"
                 /\ UNCHANGED features
            ELSE /\ raised' = FALSE
                 /\ error' = ""
                 /\ features' = [none |-> FALSE, list |-> select_features(df_eng, cand)]
    /\ pc' = "done"
    /\ op' = "select_features"
    /\ UNCHANGED <<fe, df_filtered, eng, df_eng, csv, pattern, splitVars, trainer, xgboost,
                   result, calls, fit_returned>>

\* DataPrep.validate()
Validate ==
    /\ BeforeOrAfterEngineer
    /\ IF df_eng.none
       THEN raised' = TRUE /\ error' = "Must call engineer() first"
       ELSE /\ raised' = ValidateRaises(df_eng)
            /\ error' = IF raised' THEN "Insufficient class variety" ELSE ""
    /\ pc' = "done"
    /\ op' = "validate"
    /\ UNCHANGED <<fe, df_filtered, args, eng, df_eng, prepVars, splitVars, trainer, xgboost,
                   result, calls, fit_returned>>

\* One call of engineer, select_features or validate
NextPrep == DataPrepEngineer \/ SelectFeatures \/ Validate

SpecPrep == InitPrep /\ [][NextPrep]_vars

(***************************************************************************)
(* One call of load_and_filter or prepare on a fresh DataPrep whose file   *)
(* holds the daily rows of the Tokyo index and at most one more row.       *)
(***************************************************************************)
Tokyo == <<"N", "2", "2", "5">>

Toronto == <<"G", "S", "P", "T", "S", "E">>

\* A row of the file whose four prices are price, but for high
CsvRow(code, date, price, high, volume) ==
    [Index |-> code, Date |-> date, Open |-> price, High |-> high, Low |-> price,
     Close |-> price, Volume |-> volume]

\* The rows of the Tokyo index on consecutive days with the given closes
TokyoCloses(closes) ==
    [i \in 1..Len(closes) |-> CsvRow(Tokyo, 28 + i, closes[i], closes[i], One)]

\* The rows of the Tokyo index: consecutive days, closes moving by steps
TokyoRows(st) == TokyoCloses(StepCloses(st))

\* The long files: PrepRows - 1 or PrepRows days of the Tokyo index, the
\* closes moving by x a day and by y on the last day
LongFiles ==
    {TokyoCloses(LongCloses(n, n - 2, x, y)) :
        n \in (PrepRows - 1)..PrepRows, x \in {-1, 0, 1}, y \in {-1, 0, 1}}

\* The row the file may start with: a Toronto row or a second Tokyo row on
\* the second day, a row without volume or a row with no high on the day
\* before the first
ExtraRows ==
    {<<>>,
     <<CsvRow(Toronto, 30, NumOf(FERows), NumOf(FERows), One)>>,
     <<CsvRow(Tokyo, 30, NumOf(FERows), NumOf(FERows), One)>>,
     <<CsvRow(Tokyo, 28, NumOf(FERows), NumOf(FERows), Zero)>>,
     <<CsvRow(Tokyo, 28, NumOf(FERows), NaN, One)>>}

\* The short files: the Tokyo rows of fewer than FERows days moving by -1,
\* 0 or 1, and those of FERows days moving by -1 or 1, alone or behind one
\* more row
CsvFiles ==
    {TokyoRows(st) : st \in UNION {[1..m -> {-1, 0, 1}] : m \in 0..(FERows - 2)}}
    \cup {extra \o TokyoRows(st) :
              extra \in ExtraRows, st \in [1..(FERows - 1) -> {-1, 1}]}

\* "tokyo" matches Tokyo, "To" matches Tokyo and Toronto, "NY" matches none
Patterns == {<<"t", "o", "k", "y", "o">>, <<"T", "o">>, <<"N", "Y">>}

\* The file and the pattern of a call: a short file with each pattern, a
\* long file with "tokyo"
PrepareInputs ==
    (CsvFiles \X Patterns) \cup (LongFiles \X {<<"t", "o", "k", "y", "o">>})

\* The arguments <<lags, candidate_features>> of prepare: the default
\* candidates (None) with each number of lags, and a list that names no
\* column
PrepareCalls ==
    {<<lags, NoneList>> : lags \in 0..MaxLags}
    \cup {<<0, cand>> : cand \in CandidateLists \ {NoneList}}

InitPrepare ==
    /\ fe = NoInstance
    /\ \E input \in PrepareInputs : csv = input[1] /\ pattern = input[2]
    /\ features = NoneList
    /\ df_filtered = NoneDf
    /\ pc = "start"
    /\ op = "none"
    /\ raised = FALSE
    /\ args = [include_target |-> FALSE, lags |-> 0, shift |-> 0]
    /\ eng = NoneDf
    /\ df_eng = NoneDf
    /\ test_size = <<1, TSDen>>
    /\ df = NoneFrame
    /\ train = <<>>
    /\ test = <<>>
    /\ y_train = <<>>
    /\ y_test = <<>>
    /\ IdleTrainer

\* DataPrep.load_and_filter(pattern); df_filtered is the frame it built
LoadAndFilter ==
    /\ pc = "start"
    /\ df_filtered' = load_and_filter(csv, pattern)
    /\ raised' = (Len(df_filtered'.index) = 0)
    /\ error' = IF raised' THEN "No rows found for pattern" ELSE ""
    /\ pc' = "done"
    /\ op' = "load_and_filter"
    /\ UNCHANGED <<fe, args, eng, df_eng, csv, pattern, features, splitVars,
                   trainer, xgboost, result, calls, fit_returned>>

\* DataPrep.prepare(pattern, candidate_features, lags): load_and_filter,
\* engineer, select_features and validate, up to the first that raises
Prepare ==
    /\ pc = "start"
    /\ pc' = "done"
    /\ op' = "prepare"
    /\ df_filtered' = load_and_filter(csv, pattern)
    /\ \E call \in PrepareCalls :
         /\ args' = [include_target |-> TRUE, lags |-> call[1], shift |-> 1,
                     candidate_features |-> call[2]]
         /\ IF Len(df_filtered'.index) = 0
            THEN /\ raised' = TRUE
                 /\ error' = "No rows found for pattern"
                 /\ UNCHANGED <<fe, eng, df_eng, features>>
            ELSE /\ fe' = DefaultWindows
                 /\ eng' = engineer(fe', df_filtered', TRUE, call[1])
                 /\ IF ~HasColumn(eng', "price_up")
                    THEN /\ raised' = TRUE
                         /\ error' = "Target column price_up not created"
                         /\ UNCHANGED <<df_eng, features>>
                    ELSE /\ df_eng' = DropNa(eng')
                         /\ IF select_features(df_eng', call[2]) = <<>>
                            THEN /\ raised' = TRUE
                                 /\ error' = "No valid features found"
                                 /\ UNCHANGED features
                            ELSE /\ features' =
                                       [none |-> FALSE,
                                        list |-> select_features(df_eng', call[2])]
                                 /\ raised' = ValidateRaises(df_eng')
                                 /\ error' = IF raised' THEN "Insufficient class variety"
                                             ELSE ""
    /\ UNCHANGED <<csv, pattern, splitVars, trainer, xgboost, result, calls, fit_returned>>

\* One call of a DataPrep method on a fresh instance
NextPrepare == LoadAndFilter \/ Prepare

SpecPrepare == InitPrepare /\ [][NextPrepare]_vars

(***************************************************************************)
(* Trainers (src/src/models).  A trainer is [cls, pipeline, metrics].  A   *)
(* pipeline is [steps, fitted, proba]: the names of its two steps, for     *)
(* each step the training set it is fitted on (0: not fitted), and whether *)
(* the fitted classifier gives a probability of class 1.                   *)
(***************************************************************************)
NonePipeline == [none |-> TRUE]

NoneMetrics == [none |-> TRUE]

Trainers ==
    {"BaseTrainer", "LogisticTrainer", "KNNTrainer", "DecisionTreeTrainer", "XGBTrainer"}

ConcreteTrainers == Trainers \ {"BaseTrainer"}

\* The exception the constructor of cls raises, "" if it returns:
\* KNNTrainer.__init__ hands numeric_features and categorical_features to
\* BaseTrainer.__init__, which has no such parameters
InitError(cls) == IF cls = "KNNTrainer" THEN "TypeError" ELSE ""

\* BaseTrainer.__init__
BaseTrainer(cls) ==
    [none |-> FALSE, cls |-> cls, pipeline |-> NonePipeline, metrics |-> NoneMetrics]

\* Pipeline([...]) as constructed, no step fitted
Pipeline(steps) == [none |-> FALSE, steps |-> steps, fitted |-> <<0, 0>>, proba |-> FALSE]

\* The exception build_pipeline raises on a trainer of class cls, "" if it
\* returns; xgb tells whether XGBClassifier was imported.  KNNTrainer reads
\* self.preprocessor, which nothing sets.
BuildError(cls, xgb) ==
    CASE cls = "BaseTrainer" -> "NotImplementedError"
      [] cls = "KNNTrainer"  -> "AttributeError"
      [] cls = "XGBTrainer"  -> IF xgb THEN "" ELSE "ImportError"
      [] OTHER               -> ""

\* What build_pipeline returns where it returns
build_pipeline(cls) ==
    CASE cls = "LogisticTrainer"     -> Pipeline(<<"scaler", "clf">>)
      [] cls = "XGBTrainer"          -> Pipeline(<<"scaler", "clf">>)
      [] cls = "DecisionTreeTrainer" -> Pipeline(<<"preprocessor", "clf">>)
      [] OTHER                       -> Pipeline(<<"preprocessor", "clf">>)

\* The training sets: id names the data, fault tells where sklearn's
\* Pipeline.fit raises on it (nowhere, in the first step, or in the
\* classifier once the first step is fitted), classes is the number of
\* classes of y_train
TrainSets ==
    [id : 1..MaxSets, fault : {"none"}, classes : {1, 2}]
    \cup [id : 1..MaxSets, fault : {"transformer", "classifier"}, classes : {1}]

\* Pipeline.fit(X_train, y_train), in place: the pipelines it can leave and
\* the exception raised.  A step that raises is left as it was or reset.
PipelineFit(pipe, data) ==
    CASE data.fault = "none" ->
           {[pipeline |-> [pipe EXCEPT !.fitted = <<data.id, data.id>>,
                                       !.proba = (data.classes = 2)],
             error |-> ""]}
      [] data.fault = "transformer" ->
           {[pipeline |-> [pipe EXCEPT !.fitted[1] = f], error |-> "ValueError"]
               : f \in {pipe.fitted[1], 0}}
      [] OTHER ->
           {[pipeline |-> [pipe EXCEPT !.fitted = <<data.id, f>>], error |-> "ValueError"]
               : f \in {pipe.fitted[2], 0}}

\* The pipeline `self.pipeline.fit` is called on: the one stored, or the
\* one line 51 has just stored
PipelineToFit(t) == IF t.pipeline.none THEN build_pipeline(t.cls) ELSE t.pipeline

\* Every step of the pipeline is fitted
IsFitted(pipe) == ~pipe.none /\ pipe.fitted[1] # 0 /\ pipe.fitted[2] # 0

\* What predict of a stored pipeline with an unfitted step can raise.  The
\* trainer makes no test of its own; the exception is the library's: its
\* fitted check raises NotFittedError or, where the attributes a failed fit
\* left satisfy that check, a learned attribute is missing (AttributeError).
UnfittedPredictErrors == {"NotFittedError", "AttributeError"}

\* The exceptions self.pipeline.predict can raise, "" where it returns:
\* None has no attribute predict
PredictErrors(pipe) ==
    IF pipe.none THEN {"AttributeError"}
    ELSE IF ~IsFitted(pipe) THEN UnfittedPredictErrors
    ELSE {""}

\* The test labels
TestLabels == UNION {[1..n -> {0, 1}] : n \in 1..MaxTest}

\* accuracy_score(y_test, y_pred): matches over rows
accuracy_score(yt, yp) ==
    <<Cardinality({i \in 1..Len(yt) : yt[i] = yp[i]}), Len(yt)>>

\* The labels of a report or matrix: those of y_test or y_pred
LabelsOf(yt, yp) == {yt[i] : i \in 1..Len(yt)} \cup {yp[i] : i \in 1..Len(yp)}

\* confusion_matrix(y_test, y_pred): rows counted by true and predicted label
confusion_matrix(yt, yp) ==
    [c \in LabelsOf(yt, yp) \X LabelsOf(yt, yp) |->
        Cardinality({i \in 1..Len(yt) : yt[i] = c[1] /\ yp[i] = c[2]})]

\* classification_report(y_test, y_pred): per label the support, the rows
\* predicted and the rows predicted rightly
classification_report(yt, yp) ==
    [l \in LabelsOf(yt, yp) |->
        [support   |-> Cardinality({i \in 1..Len(yt) : yt[i] = l}),
         predicted |-> Cardinality({i \in 1..Len(yt) : yp[i] = l}),
         correct   |-> Cardinality({i \in 1..Len(yt) : yt[i] = l /\ yp[i] = l})]]

\* roc_auc_score(y_test, y_proba): of the pairs of a positive and a
\* negative row, those ranked rightly, ties counting half; <<num, den>>
roc_auc_score(yt, ys) ==
    <<2 * Cardinality({q \in (1..Len(yt)) \X (1..Len(yt)) :
                          yt[q[1]] = 1 /\ yt[q[2]] = 0 /\ ys[q[1]] > ys[q[2]]})
        + Cardinality({q \in (1..Len(yt)) \X (1..Len(yt)) :
                          yt[q[1]] = 1 /\ yt[q[2]] = 0 /\ ys[q[1]] = ys[q[2]]}),
      2 * Cardinality({i \in 1..Len(yt) : yt[i] = 1})
        * Cardinality({i \in 1..Len(yt) : yt[i] = 0})>>

\* len(y_test) > 0 in place of len(set(y_test)) > 1
SomeLabel(yt) == Len(yt) > 0

\* len(set(y_test)) > 1
TwoClasses(yt) == Cardinality({yt[i] : i \in 1..Len(yt)}) > 1

\* The metrics dictionary of evaluate; has_proba tells whether predict_proba
\* returned
Metrics(yt, yp, ys, has_proba) ==
    [none |-> FALSE,
     accuracy |-> accuracy_score(yt, yp),
     classification_report |-> classification_report(yt, yp),
     confusion_matrix |-> confusion_matrix(yt, yp),
     roc_auc |-> IF has_proba /\ TwoClasses(yt)
                 THEN [none |-> FALSE, value |-> roc_auc_score(yt, ys)]
                 ELSE [none |-> TRUE]]

InitTrainer ==
    /\ trainer = NoTrainer
    /\ xgboost \in BOOLEAN
    /\ result = NoResult
    /\ error = ""
    /\ calls = 0
    /\ fit_returned = FALSE
    /\ pc = "start"
    /\ op = "none"
    /\ raised = FALSE
    /\ args = <<>>
    /\ test_size = <<1, TSDen>>
    /\ df = NoneFrame
    /\ train = <<>>
    /\ test = <<>>
    /\ y_train = <<>>
    /\ y_test = <<>>
    /\ fe = FeatureEngineering(1, 1, 1)
    /\ df_filtered = NoneDf
    /\ eng = NoneDf
    /\ df_eng = NoneDf
    /\ IdlePrep

\* What every call on a trainer leaves alone
TrainerFrame == UNCHANGED <<xgboost, splitVars, fe, df_filtered, eng, df_eng, prepVars>>

\* cls(features, ...): the constructor of one of the trainer classes
Construct ==
    /\ trainer.none
    /\ pc = "start"
    /\ \E cls \in Trainers :
         /\ args' = [cls |-> cls]
         /\ error' = InitError(cls)
         /\ trainer' = IF InitError(cls) = "" THEN BaseTrainer(cls) ELSE NoTrainer
    /\ raised' = (error' # "")
    /\ pc' = "done"
    /\ op' = "__init__"
    /\ result' = NoResult
    /\ UNCHANGED <<calls, fit_returned>>
    /\ TrainerFrame

\* trainer.build_pipeline()
BuildPipeline ==
    /\ ~trainer.none
    /\ calls < MaxCalls
    /\ calls' = calls + 1
    /\ op' = "build_pipeline"
    /\ error' = BuildError(trainer.cls, xgboost)
    /\ raised' = (error' # "")
    /\ result' = IF raised' THEN NoResult ELSE build_pipeline(trainer.cls)
    /\ UNCHANGED <<trainer, pc, args, fit_returned>>
    /\ TrainerFrame

\* trainer.fit(X_train, y_train)
Fit ==
    /\ ~trainer.none
    /\ calls < MaxCalls
    /\ calls' = calls + 1
    /\ op' = "fit"
    /\ result' = NoResult
    /\ \E data \in TrainSets :
         /\ args' = [data |-> data]
         /\ IF trainer.pipeline.none /\ BuildError(trainer.cls, xgboost) # ""
            THEN /\ error' = BuildError(trainer.cls, xgboost)
                 /\ UNCHANGED trainer
            ELSE \E out \in PipelineFit(PipelineToFit(trainer), data) :
                    /\ trainer' = [trainer EXCEPT !.pipeline = out.pipeline]
                    /\ error' = out.error
    /\ raised' = (error' # "")
    /\ fit_returned' = (fit_returned \/ ~raised')
    /\ UNCHANGED pc
    /\ TrainerFrame

\* trainer.predict(X)
Predict ==
    /\ ~trainer.none
    /\ calls < MaxCalls
    /\ calls' = calls + 1
    /\ op' = "predict"
    /\ error' \in PredictErrors(trainer.pipeline)
    /\ raised' = (error' # "")
    /\ \E X \in 1..MaxSets :
         /\ args' = [X |-> X]
         /\ result' = IF raised' THEN NoResult
                      ELSE [none |-> FALSE, X |-> X, by |-> trainer.pipeline.fitted]
    /\ UNCHANGED <<trainer, pc, fit_returned>>
    /\ TrainerFrame

\* trainer.evaluate(X_test, y_test): y_pred is what the pipeline predicts
\* for the rows of X_test and y_proba the probabilities it gives, both the
\* classifier's choice
Evaluate ==
    /\ ~trainer.none
    /\ calls < MaxCalls
    /\ calls' = calls + 1
    /\ op' = "evaluate"
    /\ error' \in PredictErrors(trainer.pipeline)
    /\ raised' = (error' # "")
    /\ \E yt \in TestLabels :
         /\ args' = [y_test |-> yt]
         /\ IF raised'
            THEN /\ result' = NoResult
                 /\ UNCHANGED trainer
            ELSE \E yp \in [1..Len(yt) -> {0, 1}], ys \in [1..Len(yt) -> {0, 1}] :
                    /\ result' = Metrics(yt, yp, ys, trainer.pipeline.proba)
                    /\ trainer' = [trainer EXCEPT !.metrics = result']
    /\ UNCHANGED <<pc, fit_returned>>
    /\ TrainerFrame

NextTrainer == Construct \/ BuildPipeline \/ Fit \/ Predict \/ Evaluate

SpecTrainer == InitTrainer /\ [][NextTrainer]_vars

(***************************************************************************)
(* Claims about TimeSeriesSplit and prepare_data                           *)
(***************************************************************************)
\* floor(n * (1 - p/q)) in exact arithmetic
ExactCut(n, ts) == (n * (ts[2] - ts[1])) \div ts[2]

TimeIndexed(t) == ~t.none /\ t.datetime /\ t.ncols >= 1

SplitReturned == pc = "done" /\ op = "split" /\ ~raised
PrepareReturned == pc = "done" /\ op = "prepare_data" /\ ~raised

\* C1: for every test_size in (0,1) and every time-indexed table of n >= 2
\* rows, split returns (rows[0:cut], rows[cut:n]) with
\* cut = floor(n * (1 - test_size)).
C1_SplitAtFloor ==
    (pc = "done" /\ op = "split" /\ TimeIndexed(df) /\ Len(df.rows) >= 2)
        => /\ ~raised
           /\ train = ILocTo(df.rows, ExactCut(Len(df.rows), test_size))
           /\ test = ILocFrom(df.rows, ExactCut(Len(df.rows), test_size))

\* C2: whenever split returns, every date of the train partition is
\* strictly earlier than every date of the test partition.
C2_TrainBeforeTest ==
    SplitReturned
        => \A i \in 1..Len(train) : \A j \in 1..Len(test) :
               train[i].date < test[j].date

\* C3: for n >= 2 rows the cut index satisfies 1 <= cut <= n - 1, so
\* neither partition is empty.
C3_CutWithinBounds ==
    (SplitReturned /\ Len(df.rows) >= 2)
        => /\ 1 <= Len(train) /\ Len(train) <= Len(df.rows) - 1
           /\ test # <<>>

\* C4: split raises, and returns no partitions, whenever the table is
\* empty, has fewer than 2 rows, or is not sorted ascending by date.
C4_RejectsBadInput ==
    (pc = "done" /\ op = "split"
       /\ (df.none \/ Empty(df) \/ Len(df.rows) < 2 \/ ~IsSorted(df.rows)))
        => raised /\ train = <<>> /\ test = <<>>

\* C5: whenever prepare_data returns, y_train holds exactly the labels of
\* the rows of X_train, one per row and in the same order, and y_test
\* those of X_test.
C5_LabelsAligned ==
    PrepareReturned => y_train = train /\ y_test = test

(***************************************************************************)
(* Claims on the feature side                                              *)
(***************************************************************************)
\* The call made was fe.engineer, directly or from DataPrep.engineer
Engineered == pc = "done" /\ op \in {"engineer", "DataPrep.engineer"}

DataPrepEngineered == pc = "done" /\ op = "DataPrep.engineer" /\ ~raised

Rows == 1..Len(eng.index)

Close == df_filtered.data["close"]

\* a > b for prices (finite and positive)
Gt(a, b) ==
    LET e == IF a.e > b.e THEN a.e ELSE b.e
    IN  NatCmp(NatShl(a.m, e - a.e), NatShl(b.m, e - b.e)) = 1

\* Row i of the engineered frame is a row of df_eng
Kept(i) == \E k \in 1..Len(df_eng.index) : df_eng.index[k] = eng.index[i]

\* No column of row i other than those of `but` is NaN
DefinedBut(i, but) == \A c \in (DOMAIN eng.data) \ but : ~IsNaN(eng.data[c][i])

\* C6: after add_targets with a given shift, every row t that has a row
\* t + shift in the series carries price_up = 1 exactly when the close of
\* row t + shift is strictly higher than the close of row t, and 0 otherwise.
C6_PriceUpIffHigher ==
    (pc = "done" /\ "price_up" \in DOMAIN eng.data) =>
        \A t \in Rows :
            t + args.shift <= Len(eng.index) =>
                /\ eng.data["price_up"][t] \in {Zero, One}
                /\ eng.data["price_up"][t] = One <=> Gt(Close[t + args.shift], Close[t])

\* add_targets(shift = MaxShift) has labelled a rise 1 and a flat step 0
C6_Witness ==
    /\ pc = "done" /\ op = "add_targets" /\ args.shift = MaxShift
    /\ \E t \in Rows : t + args.shift <= Len(eng.index)
                       /\ Gt(Close[t + args.shift], Close[t])
                       /\ eng.data["price_up"][t] = One
    /\ \E t \in Rows : t + args.shift <= Len(eng.index)
                       /\ Close[t] = Close[t + args.shift]
                       /\ eng.data["price_up"][t] = Zero

\* The largest of the instance's windows
MaxWindowOf(f) ==
    CHOOSE w \in {f.short, f.long, f.rsi} : \A v \in {f.short, f.long, f.rsi} : v <= w

\* C7: the drop-incomplete step of DataPrep.engineer removes exactly the rows
\* with an undefined derived value: a row whose derived columns are all
\* defined stays, with its values and in its order; and the first
\* max(short, long, rsi) - 1 rows and the last `shift` rows are always removed.
C7_DropsExactlyIncomplete ==
    DataPrepEngineered =>
        /\ \A i \in Rows : Kept(i) <=> DefinedBut(i, {"close"})
        /\ \A k \in 1..Len(df_eng.index) :
              /\ k > 1 => df_eng.index[k - 1] < df_eng.index[k]
              /\ \E i \in Rows :
                    /\ eng.index[i] = df_eng.index[k]
                    /\ \A c \in DOMAIN eng.data : df_eng.data[c][k] = eng.data[c][i]
        /\ \A i \in Rows :
              (i <= MaxWindowOf(fe) - 1 \/ i > Len(eng.index) - args.shift) => ~Kept(i)

\* DataPrep.engineer with the most lags has kept a row and removed, for
\* its long window alone, a row whose pct_change and rsi are defined
C7_Witness ==
    /\ DataPrepEngineered
    /\ fe = DefaultWindows /\ args.lags = MaxLags
    /\ \E i \in Rows : Kept(i)
    /\ \E i \in Rows : /\ i <= MaxWindowOf(fe) - 1
                       /\ ~IsNaN(eng.data["pct_change"][i])
                       /\ ~IsNaN(eng.data["rsi"][i])
                       /\ ~Kept(i)
    /\ ~Kept(Len(eng.index))

\* The average gain and loss of each row over the instance's RSI period
AvgUp == RsiUp(df_filtered, fe.rsi)

AvgDown == RsiDown(df_filtered, fe.rsi)

\* C8 as stated: every row whose average downward movement over the RSI
\* period is zero, the average upward movement being positive or not, has
\* the non-numeric sentinel as rsi, no error is raised, and the
\* drop-incomplete step removes the row.
C8_ZeroDownIsSentinel ==
    Engineered =>
        /\ ~raised
        /\ LET down == AvgDown
           IN  \A i \in Rows :
                   IsZero(down[i]) =>
                       /\ IsNaN(eng.data["rsi"][i])
                       /\ op = "DataPrep.engineer" => ~Kept(i)

\* C8, amended: for every row whose average downward movement over the RSI
\* period is zero no error is raised; rsi is the non-numeric sentinel, and
\* the row removed by the drop-incomplete step, only when the average upward
\* movement is zero too; when it is positive (a rising window) rsi is the
\* number 100 and the row stays unless another of its columns is undefined.
C8_ZeroDownSentinelOnlyIfFlat ==
    Engineered =>
        /\ ~raised
        /\ LET down == AvgDown
               up   == AvgUp
           IN  \A i \in Rows :
                   IsZero(down[i]) =>
                       IF IsZero(up[i])
                       THEN /\ IsNaN(eng.data["rsi"][i])
                            /\ op = "DataPrep.engineer" => ~Kept(i)
                       ELSE /\ NumEq(eng.data["rsi"][i], Hundred)
                            /\ op = "DataPrep.engineer" =>
                                   (Kept(i) <=> DefinedBut(i, {"rsi"}))

\* DataPrep.engineer has met a flat window (rsi NaN, row removed) and a
\* rising one (rsi 100, row kept): the average fall of both is -0.0, which
\* the average rise of the second is divided by
C8_Witness ==
    /\ DataPrepEngineered
    /\ \E i \in Rows : IsZero(AvgDown[i]) /\ IsZero(AvgUp[i])
                       /\ IsNaN(eng.data["rsi"][i]) /\ ~Kept(i)
    /\ \E i \in Rows : AvgDown[i] = SignedZero(-1) /\ IsPos(AvgUp[i])
                       /\ Div(AvgUp[i], AvgDown[i]) = Inf(-1)
                       /\ NumEq(eng.data["rsi"][i], Hundred) /\ Kept(i)

IsConstant(col) == \A i \in 1..Len(col) : col[i] = col[1]

\* C9: on a series whose close is the same on every row, engineer gives
\* pct_change = 0 on every row after the first, macd = 0 and macd_hist = 0 on
\* every row, and the non-numeric sentinel as rsi on every row.
C9_ConstantSeries ==
    (Engineered /\ IsConstant(Close)) =>
        \A i \in Rows :
            /\ i > 1 => NumEq(eng.data["pct_change"][i], Zero)
            /\ NumEq(eng.data["macd"][i], Zero)
            /\ NumEq(eng.data["macd_hist"][i], Zero)
            /\ IsNaN(eng.data["rsi"][i])

\* engineer has run on a constant series of FERows rows, long enough for a
\* full RSI window (of zero gains and zero losses)
C9_Witness ==
    /\ Engineered /\ IsConstant(Close) /\ Len(Close) = FERows
    /\ IsZero(AvgDown[FERows]) /\ IsZero(AvgUp[FERows])
    /\ IsNaN(eng.data["rsi"][FERows])
    /\ NumEq(eng.data["macd_hist"][FERows], Zero)

\* The closes are those of a series that rises by 1% a day from 100
IsGrowth(col) == Len(col) >= 2 /\ col = GrowthCloses(Len(col))

\* a is b up to the rounding of a few operations: |a - b| < 2^(-40)
WithinRounding(a, b) ==
    LET dlt == Sub(a, b)
    IN  dlt.k = "num" /\ (IsZero(dlt) \/ dlt.e - NatBitLen(dlt.m) >= 40)

\* C10 as stated: on a series of consecutive daily rows whose close rises by
\* a constant 1% a day, pct_change is undefined on the first row and 100.0 on
\* every row after it.
C10_PctChangeIsHundred ==
    (Engineered /\ IsGrowth(Close)) =>
        /\ IsNaN(eng.data["pct_change"][1])
        /\ \A i \in Rows : i > 1 => WithinRounding(eng.data["pct_change"][i], Hundred)

\* C10, amended: on such a series pct_change is undefined on the first row
\* and 1.0 (one percent) up to the rounding of the doubles on every row
\* after it.
C10_PctChangeIsOne ==
    (Engineered /\ IsGrowth(Close)) =>
        /\ IsNaN(eng.data["pct_change"][1])
        /\ \A i \in Rows : i > 1 => WithinRounding(eng.data["pct_change"][i], One)

\* engineer has run on a 1%-a-day series of FERows rows; the last
\* pct_change is 1.0 up to rounding, the second one not 1.0 itself
C10_Witness ==
    /\ Engineered /\ IsGrowth(Close) /\ Len(Close) = FERows
    /\ WithinRounding(eng.data["pct_change"][FERows], One)
    /\ ~NumEq(eng.data["pct_change"][2], One)

(***************************************************************************)
(* Claims about DataPrep                                                   *)
(***************************************************************************)
Prepared == pc = "done" /\ op = "prepare"

\* The table has a row labelled 1 and a row labelled 0
BothLabels(d) ==
    /\ ~d.none
    /\ \E i \in 1..Len(d.index) : d.data["price_up"][i] = One
    /\ \E i \in 1..Len(d.index) : d.data["price_up"][i] = Zero

\* C11: DataPrep.prepare returns only if the engineered-and-trimmed table
\* has a row with price_up = 1 and a row with price_up = 0; whenever the
\* table it engineered has no row, or no row labelled 1, or no row labelled
\* 0, prepare raises.
C11_ReturnsOnlyWithBothLabels ==
    Prepared =>
        /\ ~raised => BothLabels(df_eng) /\ features.list # <<>>
        /\ (~eng.none /\ ~BothLabels(DropNa(eng))) => raised /\ error # ""

\* prepare has returned a table with both labels and the features selected
\* from the default candidates
C11_Witness ==
    /\ Prepared /\ ~raised
    /\ BothLabels(df_eng)
    /\ args.candidate_features.none /\ features.list # <<>>

\* C12: whenever prepare fails, at whatever step, the DataPrep instance
\* holds no engineered table and no feature list of the failed run.
C12_NothingRetainedOnFailure ==
    (Prepared /\ raised) => df_eng = NoneDf /\ features = NoneList

\* The first t rows of a frame
Prefix(d, t) == Mask(d, 1..t)

\* The feature columns: every column but the two of the target
FeatureColumns(d) == (DOMAIN d.data) \ {"future_return", "price_up"}

\* Row t of the engineered frame has, in every feature column, the value
\* engineer gives on the first t rows alone
SameFeatures(t) ==
    \A p \in {engineer(fe, Prefix(df_filtered, t), TRUE, args.lags)} :
        \A c \in FeatureColumns(eng) : p.data[c][t] = eng.data[c][t]

\* C17: no look-ahead.  Row t of every feature column engineer gives is the
\* one it gives on the first t rows alone, so two series that agree up to
\* row t have the same features at row t; future_return and price_up are in
\* no feature list select_features returns for the default candidates.
C17_NoLookAhead ==
    (Prepared /\ ~eng.none) =>
        /\ \A t \in Rows : SameFeatures(t)
        /\ (~features.none /\ args.candidate_features.none) =>
              \A i \in 1..Len(features.list) :
                  features.list[i] \notin {"future_return", "price_up"}

\* prepare has engineered a frame of PrepRows rows with MaxLags lags
\* and selected from the default candidates; the label of some row is 1 and
\* would be 0 without the rows after it
C17_Witness ==
    /\ Prepared /\ ~eng.none /\ ~features.none
    /\ args.candidate_features.none /\ args.lags = MaxLags
    /\ Len(eng.index) = PrepRows /\ Len(df_eng.index) > 0
    /\ \E t \in Rows :
          /\ eng.data["price_up"][t] = One
          /\ add_targets(Prefix(df_filtered, t), 1).data["price_up"][t] = Zero

\* C18: whenever load_and_filter succeeds, the frame it hands to
\* FeatureEngineering has the rows of one instrument only, on strictly
\* increasing dates.
C18_FilteredIsPriceSeries ==
    (pc = "done" /\ op \in {"load_and_filter", "prepare"} /\ Len(df_filtered.index) > 0) =>
        /\ \A i, j \in 1..Len(df_filtered.index) :
              df_filtered.data["stock_index"][i] = df_filtered.data["stock_index"][j]
        /\ \A i \in 1..(Len(df_filtered.index) - 1) :
              df_filtered.index[i] < df_filtered.index[i + 1]

(***************************************************************************)
(* Claims about the trainers                                               *)
(***************************************************************************)
\* C13: in any sequence of calls on a trainer, predict called when no fit
\* has returned on it (none was made, or every one raised) fails with a
\* not-fitted error and returns no predictions.
C13_PredictBeforeFitIsNotFitted ==
    (op = "predict" /\ ~fit_returned) =>
        /\ raised
        /\ error = "NotFittedError"
        /\ result = NoResult

\* C14: a call of fit that raises leaves trainer.pipeline as it was before
\* the call: a fitted pipeline stays fitted on the earlier data, and a
\* trainer without a pipeline stays without one.
C14_FailedFitKeepsPipeline ==
    [][(op' = "fit" /\ calls' = calls + 1 /\ raised')
          => trainer'.pipeline = trainer.pipeline]_vars

\* C15: evaluate on a fitted trainer returns accuracy, classification
\* report and confusion matrix without raising, and its roc_auc is a number
\* exactly when the fitted model gives probabilities and y_test has a row of
\* each class; otherwise roc_auc is None.
C15_RocAucIffProbaAndBothClasses ==
    (op = "evaluate" /\ IsFitted(trainer.pipeline)) =>
        /\ ~raised
        /\ ~result.none
        /\ result.accuracy[2] = Len(args.y_test)
        /\ result.accuracy[1] <= result.accuracy[2]
        /\ DOMAIN result.classification_report # {}
        /\ DOMAIN result.confusion_matrix # {}
        /\ trainer.metrics = result
        /\ ~result.roc_auc.none <=>
              /\ trainer.pipeline.proba
              /\ \E i \in 1..Len(args.y_test) : args.y_test[i] = 1
              /\ \E i \in 1..Len(args.y_test) : args.y_test[i] = 0
        /\ ~result.roc_auc.none =>
              /\ result.roc_auc.value[2] > 0
              /\ result.roc_auc.value[1] <= result.roc_auc.value[2]

\* evaluate has returned a numeric roc_auc, below 1, on a test set of both
\* classes
C15_Witness ==
    /\ op = "evaluate" /\ IsFitted(trainer.pipeline) /\ ~raised
    /\ trainer.pipeline.proba
    /\ ~result.roc_auc.none
    /\ result.roc_auc.value[1] < result.roc_auc.value[2]
    /\ \E i \in 1..Len(args.y_test) : args.y_test[i] = 1
    /\ \E i \in 1..Len(args.y_test) : args.y_test[i] = 0

\* C16: the constructor of every concrete trainer class returns a trainer,
\* and build_pipeline on it returns a pipeline of a preprocessing step and
\* a classifier, but for XGBTrainer without xgboost, where it raises
\* ImportError.
C16_VariantsConstructAndBuild ==
    /\ (op = "__init__" /\ args.cls \in ConcreteTrainers)
          => ~raised /\ ~trainer.none /\ trainer.cls = args.cls
    /\ (op = "build_pipeline" /\ trainer.cls \in ConcreteTrainers)
          => /\ raised <=> (trainer.cls = "XGBTrainer" /\ ~xgboost)
             /\ raised => error = "ImportError"
             /\ ~raised => ~result.none /\ Len(result.steps) = 2

====
